---- MODULE Spec2Model ----
(***************************************************************************)
(* IntrusiveList<T> of src/rust/samples/unsafe.rs: a doubly-linked list    *)
(* threaded through caller-owned, pinned ListNode<T> values.               *)
(*                                                                         *)
(* A node is identified by its address; the model names the addresses      *)
(* 1..NumNodes and writes None (Option::None) as 0.  The fields of the     *)
(* nodes are the functions next, prev and value; the fields of the list    *)
(* are head, tail and len.  The caller of the unsafe operations is part of *)
(* the model: it keeps the bookkeeping the safety contract asks of it      *)
(* (which nodes it has linked, in which order) and only issues calls the   *)
(* contract allows.                                                        *)
(***************************************************************************)
EXTENDS Integers, Sequences, FiniteSets, Bags, TLC

\* ---------------------------------------------------------------- bounds
NumNodes == 3       \* number of ListNode values the caller allocates
MaxValue == 2       \* node values are drawn from 1..MaxValue
MaxOps   == 6       \* number of push_back/remove calls the caller makes
MaxCalls == 3       \* number of calls a caller that ignores the contract makes

None   == 0
Nodes  == 1..NumNodes
Values == 1..MaxValue
Option(S) == S \cup {None}

\* ----------------------------------------------------------------- state
VARIABLES
    next,     \* ListNode::next  of every node
    prev,     \* ListNode::prev  of every node
    value,    \* ListNode::value of every node
    head,     \* IntrusiveList::head
    tail,     \* IntrusiveList::tail
    len,      \* IntrusiveList::len
    order,    \* caller: the nodes it has linked, in push_back order
    pushes,   \* caller: number of push_back calls made
    removes,  \* caller: number of remove calls made
    last,     \* caller: the call that returned last, [op, node]
    old,      \* the list and the nodes as they were when that call began
    overflow_checks,  \* build profile: integer overflow checks are compiled in
    panicked          \* the thread has panicked (and main has ended with it)

listVars == <<next, prev, value, head, tail, len, order, pushes, removes,
              last, old, overflow_checks, panicked>>

\* ------------------------------------------------- state of ApiClient
\* src/rust/samples/play/src/dp_main.rs.  The callers are tasks that
\* each await one get_user or create_user call at a time on the shared client.
VARIABLES
    permits,  \* ApiClient::rate_limit_semaphore: permits available
    cache,    \* ApiClient::cache: HashMap from key to User
    callers,  \* number of tasks that share the client
    calls,    \* the calls in progress, a bag of Call records
    ret,      \* the call that returned last
    latest,   \* per key: the user of the last response stored under it
    promised  \* per id: the user the last request-backed get_user returned

apiVars == <<permits, cache, callers, calls, ret, latest, promised>>

\* ---------------------------------------------- state of auth_middleware
\* src/rust/samples/examples/axum.rs: one request through the middleware.
VARIABLES
    hdr,             \* the request's Authorization header value, or Absent
    mw_pc,           \* where the middleware stands
    extensions,      \* req.extensions: the AuthenticatedUser inserted
    handler_calls,   \* how often next.run(req) invoked the inner handler
    handler_resp,    \* what the inner handler answered
    response         \* what the middleware answered

axumVars == <<hdr, mw_pc, extensions, handler_calls, handler_resp, response>>

\* ------------------------------------------------- state of POST /users
\* src/rust/Examples/rocket_post_users.rs: requests handled concurrently.
VARIABLES
    rq_user,   \* per request: the User of the JSON payload
    rq_pc,     \* per request: where the handler stands
    rq_resp,   \* per request: the handler's result
    rq_saves,  \* per request: calls of Database::save it made
    db,        \* the Database: the users saved, in order
    db_lock    \* the Mutex around the Database: the request holding it

rocketVars == <<rq_user, rq_pc, rq_resp, rq_saves, db, db_lock>>

\* ------------------------------------------------- state of ThreadPool
\* src/rust/samples/concurrency.rs
VARIABLES
    pool,        \* the ThreadPool value: "live", "dropping", "dropped"
    handles,     \* ThreadPool::workers: each JoinHandle
    sender,      \* ThreadPool::sender exists (not dropped)
    channel,     \* the jobs sent and not yet received
    rx_lock,     \* the Mutex around the receiver: the worker holding it
    worker,      \* per worker thread: where it stands
    running,     \* per worker thread: the job it runs
    ran,         \* the jobs that have been run to completion
    submitted    \* number of jobs given to execute

poolVars == <<pool, handles, sender, channel, rx_lock, worker, running, ran,
              submitted>>

\* -------------------------------------------------- state of pal_check
\* src/rust/30min_Codes/palindrome_check/src/main.rs
VARIABLES
    pal_s,       \* the argument s, a sequence of chars
    pal_result   \* what pal_check(s) returned, once it has

palVars == <<pal_s, pal_result>>

\* --------------------------------------------------- state of Executor
\* src/rust/Refreshers/08_async.rs
VARIABLES
    tasks,       \* Executor::tasks, front first
    pending,     \* per task: polls its future still answers Pending
    polls,       \* polls[t][u]: polls of u since the last poll of t (2: more)
    polled,      \* the tasks polled at least once
    finished,    \* the tasks whose poll returned Ready
    run_pc,      \* where Executor::run stands
    tick         \* flips with every iteration of the loop of run

execVars == <<tasks, pending, polls, polled, finished, run_pc, tick>>

\* ------------------------------------------------------ state of Delay
\* src/rust/Refreshers/08_async.rs and Refreshers/examples/async.rs
VARIABLES
    elapsed,     \* per Delay: Delay::elapsed
    timers,      \* per Delay: the timer threads spawned, each where it stands
    delay_polls, \* per Delay: number of polls
    poll_result, \* per Delay: what the last poll returned
    early        \* per Delay: a poll returned Ready before any wake-up

delayVars == <<elapsed, timers, delay_polls, poll_result, early>>

vars == <<listVars, apiVars, axumVars, rocketVars, poolVars, palVars,
          execVars, delayVars>>

\* ------------------------------------------------------------- programs
\* The files of the repository are separate programs; a run is a run of
\* one of them and the state of the others stays as it is here.
ListIdle ==
    /\ next = <<>> /\ prev = <<>> /\ value = <<>>
    /\ head = None /\ tail = None /\ len = 0
    /\ order = <<>> /\ pushes = 0 /\ removes = 0
    /\ last = <<>> /\ old = <<>>
    /\ overflow_checks = FALSE /\ panicked = FALSE

ApiIdle ==
    /\ permits = 0 /\ cache = <<>> /\ callers = 0 /\ calls = <<>>
    /\ ret = <<>> /\ latest = <<>> /\ promised = <<>>

AxumIdle ==
    /\ hdr = <<>> /\ mw_pc = "none" /\ extensions = {}
    /\ handler_calls = 0 /\ handler_resp = 0 /\ response = 0

RocketIdle ==
    /\ rq_user = <<>> /\ rq_pc = <<>> /\ rq_resp = <<>> /\ rq_saves = <<>>
    /\ db = <<>> /\ db_lock = 0

PoolIdle ==
    /\ pool = "none" /\ handles = <<>> /\ sender = FALSE /\ channel = <<>>
    /\ rx_lock = 0 /\ worker = <<>> /\ running = <<>> /\ ran = {}
    /\ submitted = 0

PalIdle == pal_s = <<>> /\ pal_result = "none"

ExecIdle ==
    /\ tasks = <<>> /\ pending = <<>> /\ polls = <<>> /\ polled = {}
    /\ finished = {} /\ run_pc = "none" /\ tick = 0

DelayIdle ==
    /\ elapsed = FALSE /\ timers = <<>> /\ delay_polls = 0
    /\ poll_result = "none" /\ early = FALSE

\* Every program but g is idle.
IdleBut(g) ==
    /\ IF g = "list"   THEN TRUE ELSE ListIdle
    /\ IF g = "api"    THEN TRUE ELSE ApiIdle
    /\ IF g = "axum"   THEN TRUE ELSE AxumIdle
    /\ IF g = "rocket" THEN TRUE ELSE RocketIdle
    /\ IF g = "pool"   THEN TRUE ELSE PoolIdle
    /\ IF g = "pal"    THEN TRUE ELSE PalIdle
    /\ IF g = "exec"   THEN TRUE ELSE ExecIdle
    /\ IF g = "delay"  THEN TRUE ELSE DelayIdle

\* A step of program g leaves the state of every other program alone.
Keep(g) ==
    /\ IF g = "list"   THEN TRUE ELSE UNCHANGED listVars
    /\ IF g = "api"    THEN TRUE ELSE UNCHANGED apiVars
    /\ IF g = "axum"   THEN TRUE ELSE UNCHANGED axumVars
    /\ IF g = "rocket" THEN TRUE ELSE UNCHANGED rocketVars
    /\ IF g = "pool"   THEN TRUE ELSE UNCHANGED poolVars
    /\ IF g = "pal"    THEN TRUE ELSE UNCHANGED palVars
    /\ IF g = "exec"   THEN TRUE ELSE UNCHANGED execVars
    /\ IF g = "delay"  THEN TRUE ELSE UNCHANGED delayVars

\* The list together with the node storage it points into.
State == [head |-> head, tail |-> tail, len |-> len,
          next |-> next, prev |-> prev, value |-> value]

\* ListNode { value, next: None, prev: None, _pin } as main() builds it.
ListNode(v) == [value |-> v, next |-> None, prev |-> None]

\* IntrusiveList::new
new == [head |-> None, tail |-> None, len |-> 0]

\* ------------------------------------------------------------ operations
\* Variants of push_back, each with one statement of the code changed.
\* ... without `node_ptr.as_mut().prev = Some(tail)`
push_back_no_prev(s, node) ==
    LET s1 == IF s.tail # None
              THEN LET a == [s EXCEPT !.next[s.tail] = node]
                   IN  [a EXCEPT !.tail = node]
              ELSE [s EXCEPT !.head = node, !.tail = node]
    IN  [s1 EXCEPT !.len = s1.len + 1]

\* ... without `tail.as_mut().next = Some(node_ptr)`
push_back_no_next(s, node) ==
    LET s1 == IF s.tail # None
              THEN LET b == [s EXCEPT !.prev[node] = s.tail]
                   IN  [b EXCEPT !.tail = node]
              ELSE [s EXCEPT !.head = node, !.tail = node]
    IN  [s1 EXCEPT !.len = s1.len + 1]

\* ... without `self.head = Some(node_ptr)` for the first element
push_back_no_head(s, node) ==
    LET s1 == IF s.tail # None
              THEN LET a == [s EXCEPT !.next[s.tail] = node]
                       b == [a EXCEPT !.prev[node] = s.tail]
                   IN  [b EXCEPT !.tail = node]
              ELSE [s EXCEPT !.tail = node]
    IN  [s1 EXCEPT !.len = s1.len + 1]

\* ... without `self.tail = Some(node_ptr)` after linking behind the tail
push_back_no_tail(s, node) ==
    LET s1 == IF s.tail # None
              THEN LET a == [s EXCEPT !.next[s.tail] = node]
                   IN  [a EXCEPT !.prev[node] = s.tail]
              ELSE [s EXCEPT !.head = node, !.tail = node]
    IN  [s1 EXCEPT !.len = s1.len + 1]

\* ... linking the new node behind the head instead of behind the tail
push_back_via_head(s, node) ==
    LET s1 == IF s.tail # None
              THEN LET a == [s EXCEPT !.next[s.head] = node]
                       b == [a EXCEPT !.prev[node] = s.head]
                   IN  [b EXCEPT !.tail = node]
              ELSE [s EXCEPT !.head = node, !.tail = node]
    IN  [s1 EXCEPT !.len = s1.len + 1]

\* ... without `self.len += 1`
push_back_no_len(s, node) ==
    IF s.tail # None
    THEN LET a == [s EXCEPT !.next[s.tail] = node]
             b == [a EXCEPT !.prev[node] = s.tail]
         IN  [b EXCEPT !.tail = node]
    ELSE [s EXCEPT !.head = node, !.tail = node]

\* IntrusiveList::push_back(node), statement by statement.
push_back(s, node) ==
    LET node_ptr == node
        s1 == IF s.tail # None
              THEN LET t  == s.tail
                       a  == [s EXCEPT !.next[t] = node_ptr]
                       b  == [a EXCEPT !.prev[node_ptr] = t]
                   IN  [b EXCEPT !.tail = node_ptr]
              ELSE LET a  == [s EXCEPT !.head = node_ptr]
                   IN  [a EXCEPT !.tail = node_ptr]
    IN  [s1 EXCEPT !.len = s1.len + 1]

\* Variants of remove, each with one statement of the code changed.
\* ... without `self.len -= 1`
remove_no_len(s, node) ==
    LET p  == s.prev[node]
        nx == s.next[node]
        s1 == IF p # None THEN [s EXCEPT !.next[p] = nx] ELSE [s EXCEPT !.head = nx]
        s2 == IF nx # None THEN [s1 EXCEPT !.prev[nx] = p] ELSE [s1 EXCEPT !.tail = p]
    IN  [s2 EXCEPT !.prev[node] = None, !.next[node] = None]

\* ... without `self.head = next` when the node was the head
remove_no_head(s, node) ==
    LET p  == s.prev[node]
        nx == s.next[node]
        s1 == IF p # None THEN [s EXCEPT !.next[p] = nx] ELSE s
        s2 == IF nx # None THEN [s1 EXCEPT !.prev[nx] = p] ELSE [s1 EXCEPT !.tail = p]
        s3 == [s2 EXCEPT !.prev[node] = None, !.next[node] = None]
    IN  [s3 EXCEPT !.len = s3.len - 1]

\* ... without `self.tail = prev` when the node was the tail
remove_no_tail(s, node) ==
    LET p  == s.prev[node]
        nx == s.next[node]
        s1 == IF p # None THEN [s EXCEPT !.next[p] = nx] ELSE [s EXCEPT !.head = nx]
        s2 == IF nx # None THEN [s1 EXCEPT !.prev[nx] = p] ELSE s1
        s3 == [s2 EXCEPT !.prev[node] = None, !.next[node] = None]
    IN  [s3 EXCEPT !.len = s3.len - 1]

\* ... without `next_ptr.as_mut().prev = prev`
remove_no_next_prev(s, node) ==
    LET p  == s.prev[node]
        nx == s.next[node]
        s1 == IF p # None THEN [s EXCEPT !.next[p] = nx] ELSE [s EXCEPT !.head = nx]
        s2 == IF nx # None THEN s1 ELSE [s1 EXCEPT !.tail = p]
        s3 == [s2 EXCEPT !.prev[node] = None, !.next[node] = None]
    IN  [s3 EXCEPT !.len = s3.len - 1]

\* ... without clearing the removed node's own pointers
remove_no_clear(s, node) ==
    LET p  == s.prev[node]
        nx == s.next[node]
        s1 == IF p # None THEN [s EXCEPT !.next[p] = nx] ELSE [s EXCEPT !.head = nx]
        s2 == IF nx # None THEN [s1 EXCEPT !.prev[nx] = p] ELSE [s1 EXCEPT !.tail = p]
    IN  [s2 EXCEPT !.len = s2.len - 1]

\* ... with `self.len = self.len.saturating_sub(1)`
remove_saturating(s, node) ==
    LET p  == s.prev[node]
        nx == s.next[node]
        s1 == IF p # None THEN [s EXCEPT !.next[p] = nx] ELSE [s EXCEPT !.head = nx]
        s2 == IF nx # None THEN [s1 EXCEPT !.prev[nx] = p] ELSE [s1 EXCEPT !.tail = p]
        s3 == [s2 EXCEPT !.prev[node] = None, !.next[node] = None]
    IN  [s3 EXCEPT !.len = IF s3.len > 0 THEN s3.len - 1 ELSE 0]

\* ... returning early when the node has no links and is not the head
remove_if_linked(s, node) ==
    IF s.prev[node] = None /\ s.next[node] = None /\ s.head # node
    THEN s
    ELSE LET p  == s.prev[node]
             nx == s.next[node]
             s1 == IF p # None THEN [s EXCEPT !.next[p] = nx] ELSE [s EXCEPT !.head = nx]
             s2 == IF nx # None THEN [s1 EXCEPT !.prev[nx] = p] ELSE [s1 EXCEPT !.tail = p]
             s3 == [s2 EXCEPT !.prev[node] = None, !.next[node] = None]
         IN  [s3 EXCEPT !.len = s3.len - 1]

\* IntrusiveList::remove(node), statement by statement.
\* len is a usize, kept here by its representative nearest to 0: -1 stands
\* for usize::MAX, so + 1 and - 1 are exact modulo 2^64.
remove(s, node) ==
    LET node_ptr == node
        p  == s.prev[node_ptr]
        nx == s.next[node_ptr]
        s1 == IF p # None
              THEN [s EXCEPT !.next[p] = nx]
              ELSE [s EXCEPT !.head = nx]
        s2 == IF nx # None
              THEN [s1 EXCEPT !.prev[nx] = p]
              ELSE [s1 EXCEPT !.tail = p]
        s3 == [s2 EXCEPT !.prev[node_ptr] = None]
        s4 == [s3 EXCEPT !.next[node_ptr] = None]
    IN  [s4 EXCEPT !.len = s4.len - 1]

\* ---------------------------------------------------------------- caller
Range(q) == {q[i] : i \in 1..Len(q)}

\* The node is linked into this list: pushed and not removed since.
Linked(n) == n \in Range(order)

Without(q, n) == SelectSeq(q, LAMBDA x : x # n)

\* The new state of list and nodes is t.
Becomes(t) ==
    /\ head' = t.head /\ tail' = t.tail /\ len' = t.len
    /\ next' = t.next /\ prev' = t.prev /\ value' = t.value

\* The arithmetic on len as the build compiles it: with overflow checks a
\* result below 0 panics at the assignment, which then does not happen;
\* without them the result wraps.
Returns(t) ==
    IF overflow_checks /\ t.len < 0
    THEN Becomes([t EXCEPT !.len = len]) /\ panicked' = TRUE
    ELSE Becomes(t) /\ panicked' = panicked

ListInit ==
    /\ \E vs \in [Nodes -> Values] :
          /\ value = [n \in Nodes |-> ListNode(vs[n]).value]
          /\ next  = [n \in Nodes |-> ListNode(vs[n]).next]
          /\ prev  = [n \in Nodes |-> ListNode(vs[n]).prev]
    /\ head = new.head /\ tail = new.tail /\ len = new.len
    /\ order = <<>>
    /\ pushes = 0 /\ removes = 0
    /\ last = [op |-> "new", node |-> None]
    /\ old = State
    /\ overflow_checks \in BOOLEAN
    /\ panicked = FALSE

Init == ListInit /\ IdleBut("list")

\* unsafe { list.push_back(node) } with at most budget calls made so far.
CallPushBack(n, budget) ==
    /\ ~panicked
    /\ pushes + removes < budget
    /\ Returns(push_back(State, n))
    /\ order' = Append(order, n)
    /\ pushes' = pushes + 1
    /\ removes' = removes
    /\ last' = [op |-> "push_back", node |-> n]
    /\ old' = State
    /\ UNCHANGED overflow_checks
    /\ Keep("list")

\* unsafe { list.remove(node) } with at most budget calls made so far.
CallRemove(n, budget) ==
    /\ ~panicked
    /\ pushes + removes < budget
    /\ Returns(remove(State, n))
    /\ order' = Without(order, n)
    /\ removes' = removes + 1
    /\ pushes' = pushes
    /\ last' = [op |-> "remove", node |-> n]
    /\ old' = State
    /\ UNCHANGED overflow_checks
    /\ Keep("list")

\* list.push_back(node) on a node that is not in a list.
PushBack(n) ==
    /\ ~Linked(n)
    /\ CallPushBack(n, MaxOps)

\* list.remove(node) on a node that is in this list.
Remove(n) ==
    /\ Linked(n)
    /\ CallRemove(n, MaxOps)

\* The same calls from a caller that does not keep to the safety contract.
UncheckedPushBack(n) == CallPushBack(n, MaxCalls)

UncheckedRemove(n) == CallRemove(n, MaxCalls)

NextUnchecked ==
    \/ \E n \in Nodes : UncheckedPushBack(n)
    \/ \E n \in Nodes : UncheckedRemove(n)

InitUnchecked == ListInit /\ IdleBut("list")

SpecUnchecked == InitUnchecked /\ [][NextUnchecked]_vars

Next ==
    \/ \E n \in Nodes : PushBack(n)
    \/ \E n \in Nodes : Remove(n)

Spec == Init /\ [][Next]_vars

\* ------------------------------------------------------------ traversals
RECURSIVE Walk(_, _, _)
\* The nodes met from `from` by following link field f, at most fuel of them.
Walk(f, from, fuel) ==
    IF from = None \/ fuel = 0 THEN <<>>
    ELSE <<from>> \o Walk(f, f[from], fuel - 1)

Fuel == NumNodes + 1

Forward  == Walk(next, head, Fuel)
Backward == Walk(prev, tail, Fuel)

Reverse(q) == [i \in 1..Len(q) |-> q[Len(q) + 1 - i]]

Distinct(q) == \A i, j \in 1..Len(q) : i # j => q[i] # q[j]

TypeOK ==
    /\ next \in [Nodes -> Option(Nodes)]
    /\ prev \in [Nodes -> Option(Nodes)]
    /\ value \in [Nodes -> Values]
    /\ head \in Option(Nodes) /\ tail \in Option(Nodes)
    /\ len \in 0..NumNodes
    /\ overflow_checks \in BOOLEAN /\ panicked \in BOOLEAN
\* ---------------------------------------------------------------- claims
\* The call that returned last, and the node it was given.
Pushed  == last.op = "push_back"
Removed == last.op = "remove"
n0      == last.node

\* C1: link consistency.  For all nodes A and B, A.next = B implies
\* B.prev = A, and A.prev = B implies B.next = A.
C1_LinkConsistency ==
    \A A, B \in Nodes :
        /\ next[A] = B => prev[B] = A
        /\ prev[A] = B => next[B] = A

\* Two nodes are linked to each other after a remove has acted.
C1_Witness ==
    /\ removes > 0
    /\ \E A, B \in Nodes : next[A] = B /\ prev[B] = A

\* C2: chain shape.  Following next from head visits exactly len pairwise
\* distinct nodes, the last one is tail and its next is None; every linked
\* node is visited, and the walk ends (no cycle).
C2_ChainShape ==
    /\ Len(Forward) = len
    /\ Distinct(Forward)
    /\ Len(Forward) <= NumNodes
    /\ Forward # <<>> => /\ Forward[Len(Forward)] = tail
                         /\ next[tail] = None
    /\ \A n \in Nodes : Linked(n) => n \in Range(Forward)

\* A chain of three nodes after a remove has acted.
C2_Witness == len = 3 /\ removes > 0 /\ Len(Forward) = 3

\* C3: insertion order.  The traversal from head via next is the sequence
\* of linked nodes in the order of their most recent push_back, and the
\* traversal from tail via prev is its exact reverse.
C3_InsertionOrder ==
    /\ Forward = order
    /\ Backward = Reverse(order)

\* Three nodes are linked by a push_back that followed a remove.
C3_Witness ==
    /\ Len(order) = 3 /\ removes > 0 /\ Pushed
    /\ Forward = order /\ Backward = Reverse(order)

\* C4: len accounting.  len is the number of push_back calls minus the
\* number of remove calls; a push_back adds exactly 1, a remove takes
\* exactly 1 away.
C4_LenAccounting ==
    /\ len = pushes - removes
    /\ Pushed  => len = old.len + 1
    /\ Removed => len = old.len - 1

\* A remove has just returned, after several calls of both kinds.
C4_Witness == Removed /\ pushes >= 2 /\ removes >= 2 /\ len = old.len - 1
\* The predecessor and the successor the node had when the call began.
P0 == old.prev[n0]
S0 == old.next[n0]

\* C5: remove of the head.  head becomes the former second node and that
\* node's prev becomes None; if the removed node was the only element,
\* head and tail both become None.
C5_RemoveHead ==
    (Removed /\ old.head = n0) =>
        /\ head = S0
        /\ S0 # None => prev[S0] = None
        /\ old.len = 1 => head = None /\ tail = None

\* The head of a list of several nodes has been removed.
C5_Witness ==
    /\ Removed /\ old.head = n0 /\ old.len >= 2
    /\ head = S0 /\ head # None /\ prev[head] = None

\* The only node of a list has been removed.
C5_WitnessSole ==
    Removed /\ old.head = n0 /\ old.len = 1 /\ head = None /\ tail = None

\* C6: remove of the tail of a list of at least two nodes.  tail becomes
\* the former second-to-last node, that node's next becomes None, and head
\* is unchanged.
C6_RemoveTail ==
    (Removed /\ old.tail = n0 /\ old.len >= 2) =>
        /\ P0 # None
        /\ tail = P0
        /\ next[P0] = None
        /\ head = old.head

\* The tail of a list of three nodes has been removed.
C6_Witness ==
    /\ Removed /\ old.tail = n0 /\ old.len = 3
    /\ tail = P0 /\ tail # head /\ next[tail] = None

\* C7: remove of a middle node M with predecessor P and successor S.
\* Afterwards P.next = S and S.prev = P, head and tail are unchanged, and
\* M is reachable neither from head nor from tail.
C7_RemoveMiddle ==
    (Removed /\ P0 # None /\ S0 # None) =>
        /\ next[P0] = S0
        /\ prev[S0] = P0
        /\ head = old.head
        /\ tail = old.tail
        /\ n0 \notin Range(Forward)
        /\ n0 \notin Range(Backward)

\* A node between two others has been removed.
C7_Witness ==
    /\ Removed /\ P0 # None /\ S0 # None
    /\ next[P0] = S0 /\ prev[S0] = P0 /\ len = 2

\* C8: remove clears the removed node.  After remove(n), n.next and n.prev
\* are None; so every node that is not linked has both links None.
C8_RemovedCleared ==
    /\ Removed => next[n0] = None /\ prev[n0] = None
    /\ \A n \in Nodes : ~Linked(n) => next[n] = None /\ prev[n] = None

\* A node that had both neighbours has been removed and has no links left.
C8_Witness ==
    /\ Removed /\ P0 # None /\ S0 # None
    /\ next[n0] = None /\ prev[n0] = None /\ ~Linked(n0)

\* C9: push_back step.  On an empty list head = tail = n; on a list with
\* tail t: t.next = n, n.prev = t, tail = n, head unchanged; in both cases
\* n.next is None afterwards.
C9_PushBackStep ==
    Pushed =>
        /\ old.len = 0 => head = n0 /\ tail = n0
        /\ old.len # 0 => /\ old.tail # None
                          /\ next[old.tail] = n0
                          /\ prev[n0] = old.tail
                          /\ tail = n0
                          /\ head = old.head
        /\ next[n0] = None

\* A node has been pushed behind the tail of a list of two nodes.
C9_Witness ==
    /\ Pushed /\ old.len = 2
    /\ next[old.tail] = n0 /\ prev[n0] = old.tail /\ tail = n0

\* A node has been pushed onto the empty list, after earlier calls.
C9_WitnessEmpty ==
    Pushed /\ old.len = 0 /\ removes > 0 /\ head = n0 /\ tail = n0

\* The nodes whose link fields the last call may have written.
Touched ==
    IF Pushed THEN {n0, old.tail}
    ELSE IF Removed THEN {n0, P0, S0}
    ELSE {}

\* C10: frame.  No node is created or deleted, no value changes;
\* push_back(n) changes links of at most n and the old tail, remove(n) of
\* at most n, its predecessor and its successor.
C10_Frame ==
    /\ DOMAIN next = Nodes /\ DOMAIN prev = Nodes /\ DOMAIN value = Nodes
    /\ value = old.value
    /\ \A m \in Nodes \ Touched :
          next[m] = old.next[m] /\ prev[m] = old.prev[m]

\* A push_back onto a list of two has returned; the head was linked and
\* outside its reach.
C10_Witness ==
    /\ \E m \in Nodes \ Touched : old.next[m] # None \/ old.prev[m] # None
    /\ Pushed /\ old.len = 2

\* A remove from a list of three has returned with a linked node outside
\* its reach.
C10_WitnessRemove ==
    /\ \E m \in Nodes \ Touched : old.next[m] # None \/ old.prev[m] # None
    /\ Removed /\ old.len = 3
\* C11 as stated: no call ever raises a run-time error, also not one that
\* violates the preconditions (remove on an empty list).
C11_NeverPanics == ~panicked

\* C11, amended: a call panics exactly when it is a remove entered with
\* len = 0 in a build with overflow checks; every other call, and so every
\* call that respects the preconditions, runs to completion.
C11_PanicOnlyOnUnderflow ==
    panicked <=> (Removed /\ old.len = 0 /\ overflow_checks)

\* remove on the empty list has panicked.
C11_Witness == panicked /\ Removed /\ old.len = 0 /\ old.head = None

\* remove on the empty list has run to completion in a build without
\* overflow checks, len wrapped to usize::MAX.
C11_WitnessWrapped == ~panicked /\ Removed /\ old.len = 0 /\ len = -1
\* ======================================================================
\* ApiClient of src/rust/samples/play/src/dp_main.rs
\* ======================================================================
RateLimit       == 5    \* Semaphore::new(5)
NumCallers      == 6    \* concurrent callers in the rate-limit runs
NumCacheCallers == 2    \* concurrent callers in the cache runs

\* The ids asked for and the users the server answers with.
Ids      == {1, 2}
ApiUsers == {"alice", "bob"}
NoUser   == "none"
GetErrors    == {"timeout", "send", "http", "parse"}
CreateErrors == {"send", "parse"}

\* std::collections::HashMap: new, get, insert.
EmptyMap == [k \in {} |-> NoUser]
MapGet(m, k) == IF k \in DOMAIN m THEN m[k] ELSE NoUser
MapInsert(m, k, v) == [x \in DOMAIN m \cup {k} |-> IF x = k THEN v ELSE m[x]]

\* ... a key that leaves the id out
cache_key_no_id(id) == <<"user:">>

\* format!("user:{}", id)
cache_key(id) == <<"user:", id>>

\* A call in progress: the method, where it stands, its id argument and
\* api_response.data once parsed.
Call(op, at, id, user) == [op |-> op, at |-> at, id |-> id, user |-> user]

\* The call holds a SemaphorePermit.
Holds(l) == l.at \in {"flight", "inserted"}

\* The calls in progress that stand at one of the places in S.
CallsAt(S) ==
    LET D == {l \in BagToSet(calls) : l.at \in S}
    IN  BagCardinality([l \in D |-> calls[l]])

\* Requests in flight: sent, or answered and the call not yet returned.
InFlight == CallsAt({"flight", "inserted"})

\* A caller is free to make a call.
Free == BagCardinality(calls) < callers

\* A call enters the bag, leaves it, or moves on.
Enter(l)    == calls' = calls (+) SetToBag({l})
Exit(l)     == calls' = calls (-) SetToBag({l})
Step(l, l2) == calls' = (calls (-) SetToBag({l})) (+) SetToBag({l2})

\* Dropping the call's locals gives its permit back (SemaphorePermit::drop).
Release(l) == permits' = IF Holds(l) THEN permits + 1 ELSE permits

NoReturn == [kind |-> "none", id |-> 0, user |-> NoUser, held |-> FALSE,
             cached |-> NoUser, stored |-> NoUser, prior |-> NoUser]

\* What a call l that returns now leaves in ret.
Returned(l, kind, user) ==
    [kind |-> kind, id |-> l.id, user |-> user, held |-> Holds(l),
     cached |-> MapGet(cache, cache_key(l.id)),
     stored |-> MapGet(latest, <<"user:", l.id>>),
     prior  |-> MapGet(promised, l.id)]

\* ApiClient::new, shared by n callers.
ApiInit(n) ==
    /\ callers = n
    /\ permits = RateLimit
    /\ cache = EmptyMap
    /\ calls = EmptyBag
    /\ ret = NoReturn
    /\ latest = EmptyMap
    /\ promised = EmptyMap

\* get_user(id): the key is in the cache; return Ok(user.clone()).
GetUserHit(id) ==
    /\ Free
    /\ cache_key(id) \in DOMAIN cache
    /\ ret' = Returned(Call("get", "check", id, NoUser), "hit",
                       cache[cache_key(id)])
    /\ UNCHANGED <<callers, permits, cache, calls, latest, promised>>
    /\ Keep("api")

\* get_user(id): the key is not in the cache; go on to the semaphore.
GetUserMiss(id) ==
    /\ Free
    /\ cache_key(id) \notin DOMAIN cache
    /\ Enter(Call("get", "wait", id, NoUser))
    /\ UNCHANGED <<callers, permits, cache, ret, latest, promised>>
    /\ Keep("api")

\* create_user(user_data): go on to the semaphore.
CreateUser ==
    /\ Free
    /\ Enter(Call("create", "wait", 0, NoUser))
    /\ UNCHANGED <<callers, permits, cache, ret, latest, promised>>
    /\ Keep("api")

\* ... going on without a permit when none is free
AcquireNoWait(l) ==
    /\ l.at = "wait"
    /\ permits' = IF permits > 0 THEN permits - 1 ELSE permits
    /\ Step(l, [l EXCEPT !.at = "flight"])
    /\ UNCHANGED <<callers, cache, ret, latest, promised>>
    /\ Keep("api")

\* self.rate_limit_semaphore.acquire().await, then the request is sent.
Acquire(l) ==
    /\ l.at = "wait"
    /\ permits > 0
    /\ permits' = permits - 1
    /\ Step(l, [l EXCEPT !.at = "flight"])
    /\ UNCHANGED <<callers, cache, ret, latest, promised>>
    /\ Keep("api")

\* get_user: a successful response carrying user u is parsed and stored.
GetUserStore(l, u) ==
    /\ l.at = "flight" /\ l.op = "get"
    /\ cache' = MapInsert(cache, cache_key(l.id), u)
    /\ latest' = MapInsert(latest, <<"user:", l.id>>, u)
    /\ Step(l, [l EXCEPT !.at = "inserted", !.user = u])
    /\ UNCHANGED <<callers, permits, ret, promised>>
    /\ Keep("api")

\* get_user: Ok(user).
GetUserReturn(l) ==
    /\ l.at = "inserted"
    /\ ret' = Returned(l, "ok", l.user)
    /\ promised' = MapInsert(promised, l.id, l.user)
    /\ Exit(l) /\ Release(l)
    /\ UNCHANGED <<callers, cache, latest>>
    /\ Keep("api")

\* create_user: the response carrying user u is parsed; Ok(api_response.data).
CreateUserReturn(l, u) ==
    /\ l.at = "flight" /\ l.op = "create"
    /\ ret' = Returned(l, "created", u)
    /\ Exit(l) /\ Release(l)
    /\ UNCHANGED <<callers, cache, latest, promised>>
    /\ Keep("api")

\* The request fails (timeout, send error, HTTP status, JSON); Err(..).
Fail(l, kind) ==
    /\ l.at = "flight"
    /\ kind \in (IF l.op = "get" THEN GetErrors ELSE CreateErrors)
    /\ ret' = Returned(l, "err", NoUser)
    /\ Exit(l) /\ Release(l)
    /\ UNCHANGED <<callers, cache, latest, promised>>
    /\ Keep("api")

\* The caller drops the future at an await (timeout around get_user).
Cancel(l) ==
    /\ l.at \in {"wait", "flight"}
    /\ Exit(l) /\ Release(l)
    /\ UNCHANGED <<callers, cache, ret, latest, promised>>
    /\ Keep("api")

\* background_cache_cleaner: cache.clear().
CacheClear ==
    /\ cache # EmptyMap
    /\ cache' = EmptyMap
    /\ latest' = EmptyMap
    /\ promised' = EmptyMap
    /\ UNCHANGED <<callers, permits, calls, ret>>
    /\ Keep("api")

ApiNext(I, U) ==
    \/ \E id \in I : GetUserHit(id)
    \/ \E id \in I : GetUserMiss(id)
    \/ CreateUser
    \/ \E l \in BagToSet(calls) : Acquire(l)
    \/ \E l \in BagToSet(calls), u \in U : GetUserStore(l, u)
    \/ \E l \in BagToSet(calls) : GetUserReturn(l)
    \/ \E l \in BagToSet(calls), u \in U : CreateUserReturn(l, u)
    \/ \E l \in BagToSet(calls), k \in GetErrors : Fail(l, k)
    \/ \E l \in BagToSet(calls) : Cancel(l)
    \/ CacheClear

\* Many callers, one id, one user: the semaphore.
NextRate == ApiNext({1}, {"alice"})

InitRate == ApiInit(NumCallers) /\ IdleBut("api")

SpecRate == InitRate /\ [][NextRate]_vars

\* Few callers, several ids and users: the cache.
NextCache == ApiNext(Ids, ApiUsers)

InitCache == ApiInit(NumCacheCallers) /\ IdleBut("api")

SpecCache == InitCache /\ [][NextCache]_vars

\* C12: rate limit.  At every moment at most 5 requests of one ApiClient
\* are in flight; each holds one permit from before it is sent until its
\* call returns, on every exit path.
C12_RateLimit ==
    /\ InFlight <= 5
    /\ permits >= 0
    /\ permits + InFlight = 5

\* Five requests are in flight, a sixth caller waits for a permit, and a
\* call has already failed and given its permit back.
C12_Witness ==
    /\ InFlight = 5 /\ permits = 0
    /\ CallsAt({"wait"}) > 0
    /\ ret.kind = "err"

\* C13 as stated: when get_user(id) returns Ok(u) after a request the cache
\* maps "user:id" to u, and a later get_user(id), the cache not cleared in
\* between, returns u without a permit and without a request.
C13_CacheAsStated ==
    /\ ret.kind = "ok" => ret.cached = ret.user
    /\ (ret.kind = "hit" /\ ret.prior # NoUser) =>
           ret.user = ret.prior /\ ~ret.held

\* The state half of the amended C13: every cache entry is the user of the
\* most recent response stored under its key since the last clear, and a
\* get_user that finds an entry returns it, holding no permit.
C13_CacheInv ==
    /\ \A k \in DOMAIN cache : cache[k] = MapGet(latest, k)
    /\ ret.kind = "hit" =>
           ret.user # NoUser /\ ret.user = ret.stored /\ ~ret.held
    /\ ret.kind = "ok" => ret.user \in ApiUsers /\ ret.held

\* The step half: the cache is written only by a get_user call whose
\* request succeeded (storing the response under the key of its id) or by
\* a clear; a failing call leaves it unchanged.
C13_CacheWrites ==
    cache' # cache =>
        \/ cache' = EmptyMap
        \/ \E l \in BagToSet(calls), u \in ApiUsers :
              /\ l.op = "get" /\ l.at = "flight"
              /\ cache' = MapInsert(cache, <<"user:", l.id>>, u)
              /\ calls' = (calls (-) SetToBag({l}))
                          (+) SetToBag({Call("get", "inserted", l.id, u)})

\* C13, amended: a successful get_user(id) request stores the response's
\* user under "user:id" and returns it; a later get_user(id) that finds an
\* entry returns the entry (the most recently stored response for id, which
\* may come from another request for id that was under way), without permit
\* and without request; only successful get_user calls write the cache.
C13_CacheAmended == []C13_CacheInv /\ [][C13_CacheWrites]_vars

\* A get_user found an entry other than the user an earlier request-backed
\* get_user of the same id returned, with no clear in between.
C13_Witness ==
    /\ ret.kind = "hit" /\ ret.user = ret.stored
    /\ ret.prior # NoUser /\ ret.prior # ret.user
\* ======================================================================
\* auth_middleware of src/rust/samples/examples/axum.rs
\* ======================================================================
MaxSuffix == 2     \* bytes that follow the stem of a header value

\* Header values are byte strings.  "Bearer " and "bearer ".
BearerBytes == <<66, 101, 97, 114, 101, 114, 32>>
LowerBytes  == <<98, 101, 97, 114, 101, 114, 32>>
\* space, 'B', 'b', 'x' and the non-ASCII byte 0xC8
SuffixBytes == {32, 66, 98, 120, 200}

Absent     == [present |-> FALSE, bytes |-> <<>>]
Present(b) == [present |-> TRUE, bytes |-> b]

RECURSIVE SeqsUpTo(_, _)
\* The sequences over S of length at most n.
SeqsUpTo(S, n) ==
    IF n = 0 THEN {<<>>}
    ELSE LET shorter == SeqsUpTo(S, n - 1)
         IN  shorter \cup {Append(q, x) : q \in shorter, x \in S}

\* The requests tried: no header, or a stem of "Bearer "/"bearer " cut
\* anywhere and followed by a few bytes.
Headers ==
    {Absent} \cup
    {Present(SubSeq(stem, 1, k) \o suf) :
        stem \in {BearerBytes, LowerBytes}, k \in 0..Len(BearerBytes),
        suf \in SeqsUpTo(SuffixBytes, MaxSuffix)}

\* What the inner handler may answer.
HandlerStatuses == {200, 401, 404}
UNAUTHORIZED == 401

\* HeaderValue::to_str: Ok exactly when every byte is visible ASCII or tab.
to_str_ok(b) == \A i \in 1..Len(b) : (b[i] >= 32 /\ b[i] < 127) \/ b[i] = 9

\* str::starts_with
starts_with(b, pat) == Len(b) >= Len(pat) /\ SubSeq(b, 1, Len(pat)) = pat

\* ... the pattern without its trailing space
BearerNoSpace == <<66, 101, 97, 114, 101, 114>>

\* The pattern of the match guard, "Bearer ".
BearerPrefix == <<66, 101, 97, 114, 101, 114, 32>>

\* req.headers().get("Authorization").and_then(|h| h.to_str().ok())
auth_header(h) == IF h.present /\ to_str_ok(h.bytes) THEN h ELSE Absent

AxumInit ==
    /\ hdr \in Headers
    /\ mw_pc = "start"
    /\ extensions = {}
    /\ handler_calls = 0 /\ handler_resp = 0 /\ response = 0

InitAxum == AxumInit /\ IdleBut("axum")

\* Some(token) if token.starts_with("Bearer "): insert the user, run next.
AuthPass ==
    /\ mw_pc = "start"
    /\ auth_header(hdr).present
    /\ starts_with(auth_header(hdr).bytes, BearerPrefix)
    /\ extensions' = extensions \cup {"user123"}
    /\ mw_pc' = "next"
    /\ UNCHANGED <<hdr, handler_calls, handler_resp, response>>
    /\ Keep("axum")

\* _ => Err(StatusCode::UNAUTHORIZED)
AuthReject ==
    /\ mw_pc = "start"
    /\ ~(/\ auth_header(hdr).present
         /\ starts_with(auth_header(hdr).bytes, BearerPrefix))
    /\ response' = UNAUTHORIZED
    /\ mw_pc' = "done"
    /\ UNCHANGED <<hdr, extensions, handler_calls, handler_resp>>
    /\ Keep("axum")

\* next.run(req).await: the inner handler runs and answers.
NextRun(status) ==
    /\ mw_pc = "next"
    /\ handler_calls' = handler_calls + 1
    /\ handler_resp' = status
    /\ mw_pc' = "ran"
    /\ UNCHANGED <<hdr, extensions, response>>
    /\ Keep("axum")

\* Ok(..): the handler's response is the middleware's.
AuthReturn ==
    /\ mw_pc = "ran"
    /\ response' = handler_resp
    /\ mw_pc' = "done"
    /\ UNCHANGED <<hdr, extensions, handler_calls, handler_resp>>
    /\ Keep("axum")

NextAxum ==
    \/ AuthPass
    \/ AuthReject
    \/ \E st \in HandlerStatuses : NextRun(st)
    \/ AuthReturn

SpecAxum == InitAxum /\ [][NextAxum]_vars

\* The header is there, is text, and starts with "Bearer ".
IsBearer ==
    /\ hdr.present
    /\ \A i \in 1..Len(hdr.bytes) : hdr.bytes[i] < 128
    /\ Len(hdr.bytes) >= 7
    /\ SubSeq(hdr.bytes, 1, 7) = <<66, 101, 97, 114, 101, 114, 32>>

C14_WitnessPass ==
    /\ mw_pc = "done" /\ handler_calls = 1 /\ response = 404
    /\ IsBearer /\ Len(hdr.bytes) > 7
\* ======================================================================
\* POST /users of src/rust/Examples/rocket_post_users.rs
\* ======================================================================
NumRequests == 2   \* requests handled concurrently
MaxWide == 1       \* two-byte characters in a name

NameLimit == 32
MinAge == 16
BadRequest == 400
Created == 201

Requests == 1..NumRequests

\* A name is as many one-byte characters and as many two-byte characters.
Names == [ascii : (NameLimit - 1)..(NameLimit + 1), wide : 0..MaxWide]
Ages == {MinAge - 1, MinAge}
Users == [name : Names, age : Ages]
NoPayload == [name |-> [ascii |-> 0, wide |-> 0], age |-> 0]

\* String::len: the length in bytes of the UTF-8 encoding.
str_len(name) == name.ascii + 2 * name.wide
\* The number of characters of the name.
chars_count(name) == name.ascii + name.wide

NoRecord == [id |-> 0, user |-> NoPayload]
\* Database::save: stores the user and returns its Record.
save(d, user) ==
    LET record == [id |-> Len(d) + 1, user |-> user]
    IN  [db |-> Append(d, record), record |-> record]

RocketInit ==
    /\ rq_user = [r \in Requests |-> NoPayload]
    /\ rq_pc = [r \in Requests |-> "idle"]
    /\ rq_resp = [r \in Requests |-> [status |-> 0, record |-> NoRecord]]
    /\ rq_saves = [r \in Requests |-> 0]
    /\ db = <<>>
    /\ db_lock = 0

InitRocket == RocketInit /\ IdleBut("rocket")

\* A request with a well-formed payload reaches the handler.
Post(r, user) ==
    /\ rq_pc[r] = "idle"
    /\ rq_user' = [rq_user EXCEPT ![r] = user]
    /\ rq_pc' = [rq_pc EXCEPT ![r] = "validate"]
    /\ UNCHANGED <<rq_resp, rq_saves, db, db_lock>>
    /\ Keep("rocket")

\* The two early returns.
Reject(r) ==
    /\ rq_pc[r] = "validate"
    /\ str_len(rq_user[r].name) > NameLimit \/ rq_user[r].age < MinAge
    /\ rq_resp' = [rq_resp EXCEPT ![r].status = BadRequest]
    /\ rq_pc' = [rq_pc EXCEPT ![r] = "done"]
    /\ UNCHANGED <<rq_user, rq_saves, db, db_lock>>
    /\ Keep("rocket")

\* database.lock().unwrap()
Lock(r) ==
    /\ rq_pc[r] = "validate"
    /\ ~(str_len(rq_user[r].name) > NameLimit \/ rq_user[r].age < MinAge)
    /\ db_lock = 0
    /\ db_lock' = r
    /\ rq_pc' = [rq_pc EXCEPT ![r] = "locked"]
    /\ UNCHANGED <<rq_user, rq_resp, rq_saves, db>>
    /\ Keep("rocket")

\* .save(user.into_inner()); the guard is dropped with the statement.
Save(r) ==
    /\ rq_pc[r] = "locked"
    /\ db_lock = r
    /\ db' = save(db, rq_user[r]).db
    /\ rq_resp' = [rq_resp EXCEPT ![r].record = save(db, rq_user[r]).record]
    /\ rq_saves' = [rq_saves EXCEPT ![r] = @ + 1]
    /\ db_lock' = 0
    /\ rq_pc' = [rq_pc EXCEPT ![r] = "saved"]
    /\ UNCHANGED rq_user
    /\ Keep("rocket")

\* Ok((Status::Created, Json(record)))
Respond(r) ==
    /\ rq_pc[r] = "saved"
    /\ rq_resp' = [rq_resp EXCEPT ![r].status = Created]
    /\ rq_pc' = [rq_pc EXCEPT ![r] = "done"]
    /\ UNCHANGED <<rq_user, rq_saves, db, db_lock>>
    /\ Keep("rocket")

NextRocket ==
    \E r \in Requests :
        \/ \E user \in Users : Post(r, user)
        \/ Reject(r)
        \/ Lock(r)
        \/ Save(r)
        \/ Respond(r)

SpecRocket == InitRocket /\ [][NextRocket]_vars

\* The records the database holds for request r's payload under r's id.
Stored(r) == {i \in 1..Len(db) : db[i] = rq_resp[r].record}

\* C15: a request whose name is longer than 32 characters or whose age is
\* less than 16 is answered 400 without a call of save; every other request
\* calls save exactly once and is answered 201 with the Record save
\* returned.
C15_PostUsers ==
    \A r \in Requests :
        rq_pc[r] = "done" =>
            IF chars_count(rq_user[r].name) > 32 \/ rq_user[r].age < 16
            THEN rq_resp[r].status = 400 /\ rq_saves[r] = 0
            ELSE /\ rq_resp[r].status = 201 /\ rq_saves[r] = 1
                 /\ Cardinality(Stored(r)) = 1

\* What the handler does: the same with the name's length taken in bytes.
C15_ByteLength ==
    \A r \in Requests :
        /\ rq_saves[r] > 0 => db_lock = r \/ rq_pc[r] \in {"saved", "done"}
        /\ rq_pc[r] = "done" =>
            IF str_len(rq_user[r].name) > 32 \/ rq_user[r].age < 16
            THEN rq_resp[r].status = 400 /\ rq_saves[r] = 0
            ELSE /\ rq_resp[r].status = 201 /\ rq_saves[r] = 1
                 /\ Cardinality(Stored(r)) = 1

\* A name of 32 characters, one of them of two bytes, has been rejected.
C15_Witness ==
    \E r \in Requests :
        /\ rq_pc[r] = "done" /\ rq_resp[r].status = 400
        /\ chars_count(rq_user[r].name) = 32 /\ rq_user[r].age = 16
\* ======================================================================
\* ThreadPool of src/rust/samples/concurrency.rs
\* ======================================================================
NumWorkers == 2    \* size given to ThreadPool::new
MaxJobs == 2       \* calls of execute

Workers == 1..NumWorkers

\* ThreadPool::new(size): the workers are spawned and the pool handed over.
PoolInit ==
    /\ pool = "live"
    /\ handles = [w \in Workers |-> "joinable"]
    /\ sender = TRUE
    /\ channel = <<>>
    /\ rx_lock = 0
    /\ worker = [w \in Workers |-> "loop"]
    /\ running = [w \in Workers |-> 0]
    /\ ran = {}
    /\ submitted = 0

InitPool == PoolInit /\ IdleBut("pool")

\* execute(f): self.sender.send(job)
Execute ==
    /\ pool = "live"
    /\ submitted < MaxJobs
    /\ submitted' = submitted + 1
    /\ channel' = Append(channel, submitted + 1)
    /\ UNCHANGED <<pool, handles, sender, rx_lock, worker, running, ran>>
    /\ Keep("pool")

\* receiver.lock().unwrap()
WorkerLock(w) ==
    /\ worker[w] = "loop"
    /\ rx_lock = 0
    /\ rx_lock' = w
    /\ worker' = [worker EXCEPT ![w] = "recv"]
    /\ UNCHANGED <<pool, handles, sender, channel, running, ran, submitted>>
    /\ Keep("pool")

\* .recv() gives Ok(job); the guard is dropped with the statement.
RecvOk(w) ==
    /\ worker[w] = "recv"
    /\ channel /= <<>>
    /\ running' = [running EXCEPT ![w] = Head(channel)]
    /\ channel' = Tail(channel)
    /\ rx_lock' = 0
    /\ worker' = [worker EXCEPT ![w] = "job"]
    /\ UNCHANGED <<pool, handles, sender, ran, submitted>>
    /\ Keep("pool")

\* .recv() gives Err: the channel is empty and its sender is gone; break.
RecvErr(w) ==
    /\ worker[w] = "recv"
    /\ channel = <<>>
    /\ ~sender
    /\ rx_lock' = 0
    /\ worker' = [worker EXCEPT ![w] = "exited"]
    /\ UNCHANGED <<pool, handles, sender, channel, running, ran, submitted>>
    /\ Keep("pool")

\* job()
RunJob(w) ==
    /\ worker[w] = "job"
    /\ ran' = ran \cup {running[w]}
    /\ running' = [running EXCEPT ![w] = 0]
    /\ worker' = [worker EXCEPT ![w] = "loop"]
    /\ UNCHANGED <<pool, handles, sender, channel, rx_lock, submitted>>
    /\ Keep("pool")

\* Drop::drop(&mut self): the body holds two comments and no statement.
DropBody ==
    /\ pool = "live"
    /\ pool' = "fields"
    /\ UNCHANGED <<handles, sender, channel, rx_lock, worker, running, ran,
                   submitted>>
    /\ Keep("pool")

\* The fields are dropped in the order of declaration: the JoinHandles
\* first, which detaches the threads, then the sender.
DropFields ==
    /\ pool = "fields"
    /\ handles' = [w \in Workers |-> "detached"]
    /\ sender' = FALSE
    /\ pool' = "dropped"
    /\ UNCHANGED <<channel, rx_lock, worker, running, ran, submitted>>
    /\ Keep("pool")

NextPool ==
    \/ Execute
    \/ \E w \in Workers : WorkerLock(w)
    \/ \E w \in Workers : RecvOk(w)
    \/ \E w \in Workers : RecvErr(w)
    \/ \E w \in Workers : RunJob(w)
    \/ DropBody
    \/ DropFields

SpecPool == InitPool /\ [][NextPool]_vars

\* C16: the drop of a ThreadPool does not complete before every worker
\* thread has terminated and every job submitted before the drop has run.
C16_DropJoins ==
    pool = "dropped" =>
        /\ \A w \in Workers : worker[w] = "exited"
        /\ ran = 1..submitted

\* The drop is over, no worker was joined, one is still inside a job and a
\* submitted job is still in the channel.
C16_Witness ==
    /\ pool = "dropped"
    /\ \A w \in Workers : handles[w] = "detached"
    /\ \E w \in Workers : worker[w] = "job"
    /\ channel /= <<>>
\* ======================================================================
\* pal_check of src/rust/30min_Codes/palindrome_check/src/main.rs
\* ======================================================================
MaxPalLen == 3     \* characters of the input string

\* Characters are code points: 'a' 'A' 'b' '1' '!' and the pair 'é' 'É'.
PalChars == {97, 65, 98, 49, 33, 233, 201}

\* char::is_alphanumeric, on Basic Latin and Latin-1.
is_alphanumeric(c) ==
    \/ c \in 48..57 \/ c \in 65..90 \/ c \in 97..122
    \/ c \in {170, 178, 179, 181, 185, 186, 188, 189, 190}
    \/ c \in 192..214 \/ c \in 216..246 \/ c \in 248..255

\* char::to_ascii_lowercase: 'A'..'Z' to 'a'..'z', every other char as is.
to_ascii_lowercase(c) == IF c \in 65..90 THEN c + 32 ELSE c

\* The lowercase of a character, on Basic Latin and Latin-1.
to_lowercase(c) ==
    IF c \in 65..90 \/ c \in 192..214 \/ c \in 216..222 THEN c + 32 ELSE c

\* .rev()
rev(q) == [i \in 1..Len(q) |-> q[Len(q) + 1 - i]]

\* .chars().filter(|c| c.is_alphanumeric()).map(|c| c.to_ascii_lowercase())
pal_left(s) ==
    LET kept == SelectSeq(s, is_alphanumeric)
    IN  [i \in 1..Len(kept) |-> to_ascii_lowercase(kept[i])]

\* left.by_ref().zip(right).all(|(a, b)| a == b)
pal_check(s) ==
    LET left == pal_left(s)
        right == rev(pal_left(s))
    IN  \A i \in 1..Len(left) : left[i] = right[i]

PalInit ==
    /\ pal_s \in SeqsUpTo(PalChars, MaxPalLen)
    /\ pal_result = "none"

InitPal == PalInit /\ IdleBut("pal")

\* let result = pal_check(input)
PalCheck ==
    /\ pal_result = "none"
    /\ pal_result' = IF pal_check(pal_s) THEN "true" ELSE "false"
    /\ UNCHANGED pal_s
    /\ Keep("pal")

NextPal == PalCheck

SpecPal == InitPal /\ [][NextPal]_vars

\* The alphanumeric characters of the input, each lowercased.
Lowered ==
    LET kept == SelectSeq(pal_s, LAMBDA c :
                    \/ c \in 48..57 \/ c \in 65..90 \/ c \in 97..122
                    \/ c \in {201, 233})
    IN  [i \in 1..Len(kept) |-> to_lowercase(kept[i])]

\* C17: pal_check(s) is true exactly when the alphanumeric characters of s,
\* each lowercased, read the same forwards and backwards.
C17_PalCheck ==
    pal_result /= "none" =>
        (pal_result = "true" <=>
            \A i \in 1..Len(Lowered) :
                Lowered[i] = Lowered[Len(Lowered) + 1 - i])

\* "Éé" has been checked and found not to be a palindrome.
C17_Witness == pal_s = <<201, 233>> /\ pal_result = "false"

\* On inputs without a cased non-ASCII letter the result is as stated.
C17_AsciiOnly ==
    (pal_result /= "none" /\ \A i \in 1..Len(pal_s) : pal_s[i] < 128) =>
        (pal_result = "true" <=>
            \A i \in 1..Len(Lowered) :
                Lowered[i] = Lowered[Len(Lowered) + 1 - i])

\* "A!a" has been found to be a palindrome.
C17_WitnessAscii == pal_s = <<65, 33, 97>> /\ pal_result = "true"
\* ======================================================================
\* Executor of src/rust/Refreshers/08_async.rs
\* ======================================================================
NumTasks == 3      \* calls of spawn
MaxPending == 2    \* Pending answers of a future that finishes

Tasks == 1..NumTasks
Forever == -1      \* a future that answers Pending to every poll
NotSpawned == -2

\* Executor::new()
ExecInit ==
    /\ tasks = <<>>
    /\ pending = [t \in Tasks |-> NotSpawned]
    /\ polls = [t \in Tasks |-> [u \in Tasks |-> 0]]
    /\ polled = {}
    /\ finished = {}
    /\ run_pc = "new"
    /\ tick = 0

InitExec == ExecInit /\ IdleBut("exec")

Spawned == {t \in Tasks : pending[t] /= NotSpawned}

\* spawn(future): self.tasks.push_back(Task::new(future))
Spawn(n) ==
    /\ run_pc = "new"
    /\ Cardinality(Spawned) < NumTasks
    /\ LET t == Cardinality(Spawned) + 1
       IN  /\ tasks' = Append(tasks, t)
           /\ pending' = [pending EXCEPT ![t] = n]
    /\ UNCHANGED <<polls, polled, finished, run_pc, tick>>
    /\ Keep("exec")

\* run(): the waker and the context are made, the loop is entered.
RunStart ==
    /\ run_pc = "new"
    /\ run_pc' = "loop"
    /\ UNCHANGED <<tasks, pending, polls, polled, finished, tick>>
    /\ Keep("exec")

\* ... the task is put back in front
requeue_front(q, t) == <<t>> \o q

\* ... the task is let go
requeue_never(q, t) == q

\* self.tasks.push_back(task)
requeue(q, t) == Append(q, t)

\* One turn of the while let: pop_front, poll, and push_back on Pending.
RunIteration ==
    /\ run_pc = "loop"
    /\ tasks /= <<>>
    /\ LET t == Head(tasks)
       IN  /\ polls' = [x \in Tasks |->
                          IF x = t THEN [u \in Tasks |-> 0]
                          ELSE [polls[x] EXCEPT
                                  ![t] = IF @ < 2 THEN @ + 1 ELSE 2]]
           /\ polled' = polled \cup {t}
           /\ IF pending[t] = 0
              THEN /\ tasks' = Tail(tasks)
                   /\ finished' = finished \cup {t}
                   /\ pending' = pending
              ELSE /\ tasks' = requeue(Tail(tasks), t)
                   /\ finished' = finished
                   /\ pending' = [pending EXCEPT
                                    ![t] = IF @ = Forever THEN @ ELSE @ - 1]
    /\ tick' = 1 - tick
    /\ UNCHANGED run_pc
    /\ Keep("exec")

\* pop_front gave None: the loop and run are over.
RunReturn ==
    /\ run_pc = "loop"
    /\ tasks = <<>>
    /\ run_pc' = "returned"
    /\ UNCHANGED <<tasks, pending, polls, polled, finished, tick>>
    /\ Keep("exec")

NextExec ==
    \/ \E n \in 0..MaxPending \cup {Forever} : Spawn(n)
    \/ RunStart
    \/ RunIteration
    \/ RunReturn

SpecExec == InitExec /\ [][NextExec]_vars

\* The run loop is a sequential program: it takes its next step.
SpecExecFair ==
    InitExec /\ [][NextExec]_vars /\ WF_vars(RunIteration) /\ WF_vars(RunReturn)

Queued == {tasks[i] : i \in 1..Len(tasks)}

\* A finished task is out of the queue, and run has returned only with the
\* queue empty and every spawned task finished.
C18_Queue ==
    /\ Queued \cap finished = {}
    /\ Queued \cup finished = Spawned
    /\ Len(tasks) = Cardinality(Queued)
    /\ run_pc = "returned" => tasks = <<>> /\ finished = Spawned

\* A turn of the loop polls the front task, which has not finished; if this
\* task was polled before, every other queued task was polled exactly once
\* since; the task goes to the back on Pending and out of the queue on Ready.
C18_Turn ==
    tick' /= tick =>
        LET t == Head(tasks)
        IN  /\ t \notin finished
            /\ polled' = polled \cup {t}
            /\ t \in polled =>
                  \A u \in Queued \ {t} : polls[t][u] = 1
            /\ \A u \in Tasks \ {t} :
                  polls'[u][t] = IF polls[u][t] < 2 THEN polls[u][t] + 1 ELSE 2
            /\ \/ t \in finished' /\ tasks' = Tail(tasks)
               \/ t \notin finished' /\ tasks' = Append(Tail(tasks), t)

\* C18: run pops the front task and polls it once; a Pending task goes to
\* the back, so between two polls of a task every other unfinished task is
\* polled exactly once; a Ready task is never polled again; run returns
\* only with the queue empty, every spawned task having returned Ready.
C18_Scheduling == []C18_Queue /\ [][C18_Turn]_vars

\* A task polled before is at the front again, behind it the other
\* unfinished tasks, each polled once since, and one task has finished.
C18_Witness ==
    /\ run_pc = "loop" /\ Len(tasks) >= 2 /\ finished /= {}
    /\ Head(tasks) \in polled
    /\ \A u \in Queued \ {Head(tasks)} : polls[Head(tasks)][u] = 1
\* Every spawned task finishes after finitely many polls.
AllFinite == \A t \in Spawned : pending[t] /= Forever

\* C19: if every spawned task returns Ready after finitely many polls, run
\* terminates; while run is in its loop it always has a next step to take
\* (it never waits for a wake-up); with a task that stays Pending forever
\* run never returns and goes on polling.
C19_Termination ==
    /\ [](run_pc = "loop" /\ AllFinite => <>(run_pc = "returned"))
    /\ [](run_pc = "loop" => ENABLED (RunIteration \/ RunReturn))
    /\ [](~AllFinite => run_pc /= "returned")
    /\ [](run_pc = "loop" /\ ~AllFinite => <>(tick = 0) /\ <>(tick = 1))

\* run has returned after three tasks, one of which was polled after both
\* others had been.
C19_Witness ==
    /\ run_pc = "returned" /\ Cardinality(finished) >= 3
    /\ \E t \in Tasks : \A u \in Tasks \ {t} : polls[u][t] >= 1

\* run is in its loop with a task that stays Pending forever, polled
\* already, while another task has finished.
C19_WitnessForever ==
    /\ run_pc = "loop" /\ finished /= {}
    /\ \E t \in polled : pending[t] = Forever
\* ======================================================================
\* Delay of src/rust/Refreshers/08_async.rs and examples/async.rs
\* ======================================================================
NumDelays == 2       \* Delay futures
MaxDelayPolls == 3   \* polls of one Delay

Delays == 1..NumDelays

\* Delay { duration, elapsed: false }
DelayInit ==
    /\ elapsed = [d \in Delays |-> FALSE]
    /\ timers = [d \in Delays |-> <<>>]
    /\ delay_polls = [d \in Delays |-> 0]
    /\ poll_result = [d \in Delays |-> "none"]
    /\ early = [d \in Delays |-> FALSE]

InitDelay == DelayInit /\ IdleBut("delay")

\* A timer thread of d has called waker.wake().
Woken(d) == \E i \in 1..Len(timers[d]) : timers[d][i] = "woke"

\* poll with elapsed set: Poll::Ready(()), as often as it is asked.  Whoever
\* holds the future polls it when it likes, its waker woken or not;
\* Executor::run polls again at once.
PollReady(d) ==
    /\ delay_polls[d] < MaxDelayPolls
    /\ elapsed[d]
    /\ delay_polls' = [delay_polls EXCEPT ![d] = @ + 1]
    /\ poll_result' = [poll_result EXCEPT ![d] = "Ready"]
    /\ early' = [early EXCEPT ![d] = @ \/ ~Woken(d)]
    /\ UNCHANGED <<elapsed, timers>>
    /\ Keep("delay")

\* poll with elapsed clear: the timer thread is spawned, elapsed is set,
\* Poll::Pending.
PollPending(d) ==
    /\ delay_polls[d] < MaxDelayPolls
    /\ ~elapsed[d]
    /\ timers' = [timers EXCEPT ![d] = Append(@, "sleeping")]
    /\ elapsed' = [elapsed EXCEPT ![d] = TRUE]
    /\ delay_polls' = [delay_polls EXCEPT ![d] = @ + 1]
    /\ poll_result' = [poll_result EXCEPT ![d] = "Pending"]
    /\ UNCHANGED early
    /\ Keep("delay")

\* std::thread::sleep(duration) returns in the timer thread.
TimerSlept(d, i) ==
    /\ i \in 1..Len(timers[d])
    /\ timers[d][i] = "sleeping"
    /\ timers' = [timers EXCEPT ![d][i] = "slept"]
    /\ UNCHANGED <<elapsed, delay_polls, poll_result, early>>
    /\ Keep("delay")

\* waker.wake()
TimerWake(d, i) ==
    /\ i \in 1..Len(timers[d])
    /\ timers[d][i] = "slept"
    /\ timers' = [timers EXCEPT ![d][i] = "woke"]
    /\ UNCHANGED <<elapsed, delay_polls, poll_result, early>>
    /\ Keep("delay")

NextDelay ==
    \E d \in Delays :
        \/ PollReady(d)
        \/ PollPending(d)
        \/ \E i \in 1..MaxDelayPolls : TimerSlept(d, i)
        \/ \E i \in 1..MaxDelayPolls : TimerWake(d, i)

SpecDelay == InitDelay /\ [][NextDelay]_vars

\* C20: no poll of a Delay returns Ready before the timer thread spawned by
\* its first poll has slept and called waker.wake(), and one timer thread
\* is spawned per Delay however often it is polled.
C20_ReadyAfterWake ==
    \A d \in Delays :
        /\ ~early[d]
        /\ Len(timers[d]) = IF delay_polls[d] = 0 THEN 0 ELSE 1

\* A Delay has answered Ready to its second poll while its timer thread is
\* still asleep.
C20_Witness ==
    \E d \in Delays :
        /\ poll_result[d] = "Ready" /\ delay_polls[d] = 2
        /\ timers[d] = <<"sleeping">>

\* One timer thread per polled Delay, none for a Delay never polled.
C20_OneTimer ==
    \A d \in Delays : Len(timers[d]) = IF delay_polls[d] = 0 THEN 0 ELSE 1
\* ======================================================================
\* IntrusiveList, endpoints and the remove precondition
\* ======================================================================
\* C21: endpoints.  head is None iff tail is None iff len = 0; in a
\* non-empty list head.prev and tail.next are None; head = tail, both
\* Some, iff len = 1.
C21_Endpoints ==
    /\ (head = None) <=> (tail = None)
    /\ (tail = None) <=> (len = 0)
    /\ len # 0 => prev[head] = None /\ next[tail] = None
    /\ (head # None /\ tail # None /\ head = tail) <=> (len = 1)

\* A list of two nodes, left by a remove, with distinct head and tail.
C21_Witness ==
    /\ Removed /\ len = 2 /\ head # None /\ tail # None /\ head # tail
    /\ prev[head] = None /\ next[tail] = None

\* A list of one node, left by a remove.
C21_WitnessOne == Removed /\ len = 1 /\ head # None /\ head = tail

\* The list is empty again after a remove.
C21_WitnessEmpty == Removed /\ len = 0 /\ head = None /\ tail = None
\* The call that returned last was a remove of a node that was not linked
\* (prev = next = None), on a list that held the nodes of order, in order.
UnlinkedRemove ==
    /\ Removed /\ n0 \notin Range(order)
    /\ old.prev[n0] = None /\ old.next[n0] = None
    /\ order # <<>>
    /\ old.len = Len(order)
    /\ Walk(old.next, old.head, Fuel) = order
    /\ Walk(old.prev, old.tail, Fuel) = Reverse(order)

\* C22: remove of a node that is not linked, on a list that holds other
\* nodes, sets head and tail to None and takes 1 from len; the nodes that
\* were linked keep their links to each other and are not reachable from
\* head; len equals the number of nodes reachable from head only if
\* exactly one node was linked.
C22_RemoveUnlinked ==
    UnlinkedRemove =>
        /\ ~panicked
        /\ head = None /\ tail = None
        /\ len = old.len - 1
        /\ Forward = <<>> /\ Backward = <<>>
        /\ \A i \in 1..(Len(order) - 1) :
              next[order[i]] = order[i + 1] /\ prev[order[i + 1]] = order[i]
        /\ (len = Len(Forward)) <=> (Len(order) = 1)

\* A node that was not linked has been removed from a list of two: the two
\* still point at each other, head is None and len is 1.
C22_Witness ==
    /\ UnlinkedRemove /\ Len(order) = 2
    /\ head = None /\ len = 1
    /\ next[order[1]] = order[2] /\ prev[order[2]] = order[1]

\* The same on a list of one node: len and the walk from head agree at 0.
C22_WitnessOne ==
    UnlinkedRemove /\ Len(order) = 1 /\ head = None /\ len = 0
====
